---- MODULE Spec2Model ----
(***************************************************************************)
(* Model of the ImageProcessor of src/image_processor.py (marker map, frame *)
(* history, pose state, trajectory buffer, telemetry socket, SIGINT        *)
(* handler and CSV flush) as it is                                         *)
(* driven by its two deployments: HeadlessCamera (src/headless_cam.py),    *)
(* where frames are processed on the main thread, and CameraWebStreamer    *)
(* (src/ssh_cam.py), where frames are processed on a daemon capture thread *)
(* while the main thread serves HTTP and runs the signal handler.          *)
(*                                                                         *)
(* Lengths are in centimetres, angles in degrees (multiples of 90, so that *)
(* cos and sin are exact), screen coordinates in pixels.                   *)
(***************************************************************************)
EXTENDS Integers, Sequences, FiniteSets, TLC

(***************************************************************************)
(* Bounds of the model.                                                    *)
(***************************************************************************)
\* frames read from the camera in one run of the process
MaxFrames == 4
\* successful pose estimates (recorded samples) in one run of the process
MaxSamples == 2
\* SIGINT deliveries in one run of the process
MaxSignals == 2
\* runs of the process over the same output/ directory
MaxRuns == 2
\* output<N>.csv files that may exist before the first run: N in 1..MaxPre
MaxPre == 2
\* largest required_frames asked of has_sufficient_frames
MaxRequired == 5

(***************************************************************************)
(* Program constants.                                                      *)
(***************************************************************************)
\* image_processor.py:27 and :29 (MAPHEIGHT = 1.5 m, here in cm)
SCREENHEIGHT == 750
MAPHEIGHT == 150
\* image_processor.py:30, here pixels per centimetre
RATIO_MTS == SCREENHEIGHT \div MAPHEIGHT
\* image_processor.py:37
num_frames == 2
\* image_processor.py:73, :81, :83: 5 pages of 8 markers, IDs 0..39
NumPages == 5
MarkersPerPage == 8
\* image_processor.py:347-348: 0.1 m from the optical centre to the car centre
CarOffset == 10
\* image_processor.py:110
collect_data == TRUE
\* image_processor.py:160, the first counter get_next_output_filename probes
FirstCounter == 1

\* the value None of a frame (frames are identified by the deployment's
\* frame_count, which starts at 1)
None == 0

MarkerIds == 0 .. (NumPages * MarkersPerPage - 1)

\* a marker ID the map does not hold
UnknownId == NumPages * MarkersPerPage

Min(a, b) == IF a < b THEN a ELSE b

\* the last n elements of s
LastN(s, n) == SubSeq(s, Len(s) - Min(n, Len(s)) + 1, Len(s))

IsPrefix(s, t) == Len(s) <= Len(t) /\ SubSeq(t, 1, Len(s)) = s

Range(s) == {s[i] : i \in 1 .. Len(s)}

(***************************************************************************)
(* Pure functions of the program.                                          *)
(***************************************************************************)

\* math.cos / math.sin of an angle in degrees, for multiples of 90
CosDeg(a) == CASE a % 360 = 0 -> 1
               [] a % 360 = 90 -> 0
               [] a % 360 = 180 -> -1
               [] a % 360 = 270 -> 0

SinDeg(a) == CASE a % 360 = 0 -> 0
               [] a % 360 = 90 -> 1
               [] a % 360 = 180 -> 0
               [] a % 360 = 270 -> -1

\* get_camera_angle_from_rtvec: atan is degrees(atan2(R[2,0], R[2,1]))
get_camera_angle_from_rtvec_NoNegation(atan) == atan + 90

get_camera_angle_from_rtvec(atan) == -atan + 90

\* the row aruco_detection appends for a pose (lines 347-354); its yaw
\* column is read back from self.last_valid_angle
PoseRow(camera_pos, camera_angle, stored_angle) ==
    LET x == camera_pos[1] - CarOffset * CosDeg(camera_angle)
        y == camera_pos[2] - CarOffset * SinDeg(camera_angle)
        x_scaled == x * RATIO_MTS
        y_scaled == y * RATIO_MTS
        y_transformed == SCREENHEIGHT - y_scaled
    IN  <<x_scaled, y_transformed, stored_angle>>

\* self.pose_data.append(row), line 354
RecordSample_Prepend(pd, row) == <<row>> \o pd

RecordSample_Twice(pd, row) == pd \o <<row, row>>

RecordSample(pd, row) == Append(pd, row)

\* update_frame lines 285-288: the history after the current frame cur was
\* demoted into it
PushHistory_PopNewest(frs, cur) ==
    IF cur # None
    THEN LET app == Append(frs, cur)
         IN  IF Len(app) > num_frames THEN SubSeq(app, 1, Len(app) - 1) ELSE app
    ELSE frs

PushHistory_PopEarly(frs, cur) ==
    IF cur # None
    THEN LET app == Append(frs, cur)
         IN  IF Len(app) >= num_frames THEN Tail(app) ELSE app
    ELSE frs

PushHistory(frs, cur) ==
    IF cur # None
    THEN LET app == Append(frs, cur)
         IN  IF Len(app) > num_frames THEN Tail(app) ELSE app
    ELSE frs

\* get_frame_count / the total of has_sufficient_frames (lines 455, 459)
TotalFrames(frs, cur) == Len(frs) + (IF cur # None THEN 1 ELSE 0)

HasSufficient_HistoryOnly(frs, cur, required_frames) == Len(frs) >= required_frames

\* has_sufficient_frames, lines 457-460
HasSufficient(frs, cur, required_frames) ==
    TotalFrames(frs, cur) >= required_frames

\* the indices of the detections whose ID the marker map holds (line 257)
Recognized(detected) == {i \in 1 .. Len(detected) : detected[i] \in MarkerIds}

NoPose == [ok |-> FALSE, pos |-> <<0, 0>>, yaw |-> 0]

EstimatePose_AnyMarker(detected, solved, pos, atan) ==
    IF Len(detected) > 0 /\ solved
    THEN [ok |-> TRUE, pos |-> pos, yaw |-> get_camera_angle_from_rtvec(atan)]
    ELSE NoPose

\* get_camera_position_from_multiple_markers with get_camera_angle_from_rtvec
\* (lines 334-341): 4 object points per recognized detection, solvePnP iff at
\* least 4 points; solved, pos and atan are what solvePnP and Rodrigues give
EstimatePose(detected, solved, pos, atan) ==
    IF Len(detected) > 0 /\ 4 * Cardinality(Recognized(detected)) >= 4 /\ solved
    THEN [ok |-> TRUE, pos |-> pos, yaw |-> get_camera_angle_from_rtvec(atan)]
    ELSE NoPose

\* the emptiness tests of the trajectory buffer: len(self.pose_data) > 0
\* (line 148) and not self.pose_data (line 169)
HasPoseData_Always(pd) == TRUE

HasPoseData(pd) == Len(pd) > 0

\* csv.writer's rendering of one row: str() of each field
FormatRow(row) == <<ToString(row[1]), ToString(row[2]), ToString(row[3])>>

\* line 178
Header == <<"x", "y", "yaw">>

\* os.path.exists(filename) of get_next_output_filename, line 163
FileExists_Never(existing, counter) == FALSE

FileExists(existing, counter) == counter \in existing

\* math.radians(angle) as the message prints it with "{:.3f}": thousandths of
\* a radian, rounded to the nearest (line 223 and line 229)
MilliRadians(deg) == (deg * 31416 + 900) \div 1800

\* the message convert_and_send builds from the stored pose (lines 220-229):
\* x and y in pixels, the third field math.radians(last_valid_angle) in
\* thousandths of a radian
Message_NoFlip(pos, angle) ==
    LET x == pos[1] * RATIO_MTS
        y == pos[2] * RATIO_MTS
    IN  <<x - 50 * CosDeg(angle),
          y + 50 * SinDeg(angle),
          MilliRadians(angle)>>

Message(pos, angle) ==
    LET x == pos[1] * RATIO_MTS
        y == (MAPHEIGHT - pos[2]) * RATIO_MTS
    IN  <<x - 50 * CosDeg(angle),
          y + 50 * SinDeg(angle),
          MilliRadians(angle)>>

\* convert_and_send lines 234-236 and aruco_detection lines 367-368: whether
\* self.client_socket is still there after a send that raised
AfterSendFailure_Keep(attached) == attached

AfterSendFailure(attached) == FALSE

\* __init__ line 116: whether setup_tcp is called
ShouldSetupTcp_Always(tcpFlag) == TRUE

ShouldSetupTcp(tcpFlag) == tcpFlag

\* setup_tcp lines 199-201: self.client_socket exists only when accept
\* returned
ClientAfterSetup_Always(outcome) == TRUE

ClientAfterSetup(outcome) == outcome = "connected"

\* setup_tcp lines 202-205: what the two `except Exception` around accept
\* catch; exc is "Exception" for an exception derived from Exception and
\* "SystemExit" for the one sys.exit raises
SetupCatches_Bare(exc) == TRUE

SetupCatches(exc) == exc = "Exception"

\* aruco_detection line 380, line 363 and poseEstimation line 413: what the
\* `except Exception` clauses of the frame catch
DetectionCatches_Bare(exc) == TRUE

DetectionCatches(exc) == exc = "Exception"

ShouldSend_TcpOnly(tcpFlag, attached) == tcpFlag

\* aruco_detection line 361: whether a send is attempted for this frame
ShouldSend(tcpFlag, attached) == tcpFlag /\ attached

\* aruco_detection line 298: nothing is detected without a current frame or
\* without a detector
DetectionSkipped_FrameOnly(cur, available) == cur = None

DetectionSkipped(cur, available) == cur = None \/ ~available

\* the order of the statements of aruco_detection after the estimate (lines
\* 344-378): the stage that follows a stage; "nopose" is the else branch of
\* lines 370-373, "axes" the call of poseEstimation at line 378
FrameStep_SendFirst(stage, sending) ==
    CASE stage = "store" -> IF sending THEN "send" ELSE "record"
      [] stage = "send" -> "record"
      [] stage = "record" -> "axes"
      [] stage = "nopose" -> "axes"
      [] stage = "axes" -> "idle"

FrameStep(stage, sending) ==
    CASE stage = "store" -> "record"
      [] stage = "record" -> IF sending THEN "send" ELSE "axes"
      [] stage = "send" -> "axes"
      [] stage = "nopose" -> "axes"
      [] stage = "axes" -> "idle"

(***************************************************************************)
(* The marker map of __init__ (layout 1), lengths in tenths of a           *)
(* millimetre.                                                             *)
(***************************************************************************)
\* line 58
page_offsets_y == <<0, 2520, 2520, 2510, 2460>>

\* lines 59-66
marker_offsets == <<<<0, 0, 0>>, <<0, 980, 0>>, <<0, -180, -1160>>, <<0, 305, -1160>>,
                    <<0, 785, -1160>>, <<0, 1265, -1160>>, <<0, 0, -1840>>,
                    <<0, 980, -1840>>>>

\* line 68
start_coord == <<18000, 15000 - (350 + 370), 2290>>

\* lines 72-78: page_coords[i], i counted from 0
RECURSIVE CumulativeOffset(_)
CumulativeOffset(i) ==
    IF i < 0 THEN 0 ELSE CumulativeOffset(i - 1) + page_offsets_y[i + 1]

page_coords(i) == <<start_coord[1], start_coord[2] - CumulativeOffset(i), start_coord[3]>>

\* lines 84-86
marker_pos(i, j) ==
    <<page_coords(i)[1] + marker_offsets[j + 1][1],
      page_coords(i)[2] - marker_offsets[j + 1][2],
      page_coords(i)[3] + marker_offsets[j + 1][3]>>

\* lines 90-93
marker_size_FirstTwo(j) == IF j \in {0, 1} THEN 760 ELSE 260

marker_size(j) == IF j \in {0, 1, 6, 7} THEN 760 ELSE 260

\* lines 80-98: the two loops with the running counter num
RECURSIVE BuildMarkers(_, _, _, _)
BuildMarkers(i, j, num, map) ==
    IF i = NumPages
    THEN map
    ELSE IF j = MarkersPerPage
         THEN BuildMarkers(i + 1, 0, num, map)
         ELSE BuildMarkers(i, j + 1, num + 1,
                           (num :> [position |-> marker_pos(i, j), size |-> marker_size(j)])
                               @@ map)

\* lines 49 and 80-98: the map __init__ builds, starting from the empty dict
BuiltMarkerMap == BuildMarkers(0, 0, 0, <<>>)

\* get_marker_corners_3d, lines 207-216: top-left, top-right, bottom-right,
\* bottom-left
get_marker_corners_3d(marker_center, size) ==
    LET half_size == size \div 2
    IN  <<<<marker_center[1], marker_center[2] + half_size, marker_center[3] + half_size>>,
          <<marker_center[1], marker_center[2] - half_size, marker_center[3] + half_size>>,
          <<marker_center[1], marker_center[2] - half_size, marker_center[3] - half_size>>,
          <<marker_center[1], marker_center[2] + half_size, marker_center[3] - half_size>>>>

\* self.corners[i][0]: the 4 image corners of detection i, each identified by
\* the detection's index and its place among the 4
ImageCorners(i) == <<<<i, 1>>, <<i, 2>>, <<i, 3>>, <<i, 4>>>>

\* get_camera_position_from_multiple_markers, lines 253-264: the loop over
\* the detections from index i on, extending the two lists
RECURSIVE CollectPoints_EveryImage(_, _, _, _)
CollectPoints_EveryImage(detected, map, i, acc) ==
    IF i > Len(detected)
    THEN acc
    ELSE LET marker_id == detected[i]
         IN  CollectPoints_EveryImage(detected, map, i + 1,
                 [object_points |->
                      IF marker_id \in DOMAIN map
                      THEN acc.object_points
                               \o get_marker_corners_3d(map[marker_id].position,
                                                        map[marker_id].size)
                      ELSE acc.object_points,
                  image_points |-> acc.image_points \o ImageCorners(i)])

RECURSIVE CollectPoints(_, _, _, _)
CollectPoints(detected, map, i, acc) ==
    IF i > Len(detected)
    THEN acc
    ELSE LET marker_id == detected[i]
         IN  IF marker_id \in DOMAIN map
             THEN CollectPoints(detected, map, i + 1,
                      [object_points |->
                           acc.object_points
                               \o get_marker_corners_3d(map[marker_id].position,
                                                        map[marker_id].size),
                       image_points |-> acc.image_points \o ImageCorners(i)])
             ELSE CollectPoints(detected, map, i + 1, acc)

\* lines 253-254
NoPoints == [object_points |-> <<>>, image_points |-> <<>>]

\* line 266: whether solvePnP is called
SolveAttempted(points) == Len(points.object_points) >= 4

\* what get_camera_position_from_multiple_markers works with for the IDs
\* self.ids (lines 253-266); not called when no marker was detected (line 334)
PnPInput(detected, map) ==
    LET points == CollectPoints(detected, map, 1, NoPoints)
    IN  [ids |-> detected, points |-> points, attempted |-> SolveAttempted(points)]

\* before a detection and after the frame's functions have returned
NoDetection == [ids |-> <<>>, points |-> NoPoints, attempted |-> FALSE]

\* the except Exception clauses of aruco_detection (lines 380-383) and of
\* poseEstimation (lines 413-414): the exception is printed and the function
\* returns, the state of the process is what it was
AfterCatch_Propagates(state) == "crashed"

AfterCatch(state) == state

\* get_annotated_frame, lines 443-447
get_annotated_frame(headless, annotated, cur) ==
    IF headless THEN cur
    ELSE IF annotated # None THEN annotated ELSE cur

(***************************************************************************)
(* Inputs: what the detector and the PnP solver may return for a frame.    *)
(***************************************************************************)
\* the IDs detectMarkers returns: none, an unknown marker, a known one, both
Detections == {<<>>, <<UnknownId>>, <<3>>, <<UnknownId, 3>>}

\* camera position -R^T t (cm) and degrees(atan2(R[2,0], R[2,1]))
PnPResults == {[pos |-> <<100, 60>>, atan |-> 0],
               [pos |-> <<40, 120>>, atan |-> 180]}

\* what an output<N>.csv written by an earlier program holds
OldLines == <<Header, <<"1", "2", "3">>>>

\* file numbers the model follows: every activation of the handler creates at
\* most one file
MaxFile == MaxPre + MaxRuns * MaxSignals

\* What the environment and the deployment do in one behaviour: how many
\* frames the camera delivers in a run, how many SIGINTs are delivered in a
\* run, how often the program is run, whether the ImageProcessor is built
\* with tcp=True, and how many output<N>.csv files may exist beforehand.  Long
\* frame sequences (with and without telemetry, starting without output
\* files), nested interrupts and reruns (over every set of pre-existing
\* files) are explored one at a time.
Budgets ==
    {[frames |-> MaxSamples, signals |-> 1, runs |-> 1, tcp |-> TRUE, pre |-> 0],
     [frames |-> MaxFrames, signals |-> 1, runs |-> 1, tcp |-> FALSE, pre |-> 0],
     [frames |-> 1, signals |-> MaxSignals, runs |-> 1, tcp |-> FALSE, pre |-> MaxPre],
     [frames |-> 1, signals |-> 1, runs |-> MaxRuns, tcp |-> FALSE, pre |-> MaxPre]}

(***************************************************************************)
(* State.                                                                  *)
(***************************************************************************)
VARIABLES
    budget,           \* the environment's budget, one of Budgets
    run,              \* the number of this run of the process
    threaded,         \* TRUE: CameraWebStreamer (frames on a capture thread)
    aruco_available,  \* self.aruco_available
    marker_world_positions, \* self.marker_world_positions
    tcp,              \* self.tcp
    procState,        \* "setup", "running", "stopping", "unwinding", or how
                      \* the process ended: "exited", "timed_out", "crashed"
    frame_count,      \* the deployment's frame_count: the newest frame's number
    current_frame,    \* self.current_frame (None or a frame number)
    frames,           \* self.frames
    pcFrame,          \* where update_frame / aruco_detection stands
    est,              \* camera_pos and camera_angle of the frame in progress
    last_valid_pos,   \* self.last_valid_pos
    last_valid_angle, \* self.last_valid_angle
    pose_data,        \* self.pose_data
    annotated_frame,  \* self.annotated_frame (None or a frame number)
    pnp,              \* self.ids and the points collected from them by the
                      \* estimator, until the estimate is used or dropped
    client_socket,    \* whether self.client_socket exists
    dirExists,        \* whether output/ exists
    output_files,     \* the N for which output/output<N>.csv exists
    file_lines,       \* the lines of output<N>.csv
    hstack,           \* the activations of signal_handler, innermost last
    K,                \* history: non-None frames since construction or clear
    firstSince,       \* history: the first of them
    last_good,        \* history: the pose of the last successful estimate
    pose_updates,     \* history: how often the pose was stored (lines 344-345)
    expect_rows,      \* history: rows the buffer must hold after this frame
    saveCalls,        \* history: calls of save_pose_data_to_csv in this run
    created,          \* history: files opened for writing in this run
    pre_files,        \* history: the files that existed when the run began
    sigCount,         \* history: SIGINTs delivered in this run
    flushFailed,      \* history: a filesystem call of the flush raised
    peer,             \* the flush of a second engine process that shares output/
    setup_outcome,    \* history: how setup_tcp ended in this run, "none" before
    camera_released,  \* stop() has released the camera
    accepts,          \* history: calls of server_socket.accept in this run
    sent,             \* history: the sends attempted in this run
    sendFailed        \* history: a send raised in this run

vars == <<budget, run, threaded, aruco_available, marker_world_positions, tcp, procState,
          frame_count,
          current_frame, frames, pcFrame, est, last_valid_pos, last_valid_angle,
          pose_data, annotated_frame, pnp, client_socket, dirExists, output_files, file_lines, hstack, K,
          firstSince, last_good, pose_updates, expect_rows, saveCalls, created, pre_files, sigCount,
          flushFailed, peer, setup_outcome, camera_released, accepts, sent, sendFailed>>

deployVars == <<budget, threaded, aruco_available, marker_world_positions, tcp>>
peerVars == <<peer>>
frameVars == <<frame_count, current_frame, frames, K, firstSince>>
poseVars == <<est, last_valid_pos, last_valid_angle, last_good, pose_updates>>
fsVars == <<dirExists, output_files, file_lines, created>>
tcpVars == <<client_socket, setup_outcome, accepts, sent, sendFailed>>
imgVars == <<annotated_frame, pnp>>
sigVars == <<saveCalls, sigCount, flushFailed>>

\* the ways a process ends: sys.exit of the signal handler, the duration
\* limit of run_detection, an exception nobody caught
Ended == {"exited", "timed_out", "crashed"}

\* ImageProcessor.__init__, lines 35-43, 109-110 and 116-119
InitMemory ==
    /\ procState = IF ShouldSetupTcp(tcp) THEN "setup" ELSE "running"
    /\ frame_count = 0
    /\ current_frame = None
    /\ frames = <<>>
    /\ pcFrame = "idle"
    /\ est = NoPose
    /\ last_valid_pos = <<0, 0>>
    /\ last_valid_angle = 0
    /\ pose_data = <<>>
    /\ annotated_frame = None
    /\ pnp = NoDetection
    /\ client_socket = FALSE
    /\ hstack = <<>>
    /\ K = 0
    /\ firstSince = None
    /\ last_good = [pos |-> <<0, 0>>, yaw |-> 0]
    /\ expect_rows = 0
    /\ pose_updates = 0
    /\ saveCalls = 0
    /\ created = {}
    /\ sigCount = 0
    /\ flushFailed = FALSE
    /\ accepts = 0
    /\ setup_outcome = "none"
    /\ camera_released = FALSE
    /\ sent = <<>>
    /\ sendFailed = FALSE

\* no second process
NoPeer == [pc |-> "absent", counter |-> FirstCounter, file |-> None]

\* a second process at the start of get_next_output_filename's loop
PeerAtFlush == [pc |-> "probe", counter |-> FirstCounter, file |-> None]

\* what the second process writes: the header and one row
PeerLines == <<Header, <<"7", "8", "9">>>>

Init ==
    /\ budget \in Budgets
    /\ peer = NoPeer
    /\ run = 1
    /\ threaded \in BOOLEAN
    /\ aruco_available \in BOOLEAN
    /\ tcp = budget.tcp
    /\ marker_world_positions = BuiltMarkerMap
    /\ InitMemory
    /\ dirExists \in BOOLEAN
    /\ output_files \in (IF dirExists THEN SUBSET (1 .. budget.pre) ELSE {{}})
    /\ file_lines = [n \in 1 .. MaxFile |-> IF n \in output_files THEN OldLines ELSE <<>>]
    /\ pre_files = output_files

\* setup_tcp, lines 185-197, called once by __init__ (line 117) after the
\* handler was installed (line 114): socket, bind or listen raises and an
\* except clause reports it, or the server socket listens and accept is called
SetupTcp ==
    /\ procState = "setup"
    /\ \E listening \in BOOLEAN :
         IF listening
         THEN /\ accepts' = accepts + 1
              /\ procState' = "accepting"
              /\ UNCHANGED <<client_socket, setup_outcome>>
         ELSE /\ setup_outcome' = "no_socket"
              /\ client_socket' = ClientAfterSetup("no_socket")
              /\ procState' = "running"
              /\ UNCHANGED accepts
    /\ UNCHANGED <<run, deployVars, peerVars, frameVars, pcFrame, poseVars, pose_data, fsVars,
                   hstack, expect_rows, pre_files, camera_released, imgVars, sigVars,
                   sent, sendFailed>>

\* setup_tcp, lines 199-205: the blocking accept returns the client or
\* raises, and the inner except reports it; __init__ goes on
Accept ==
    /\ procState = "accepting"
    /\ hstack = <<>>
    /\ \E outcome \in {"accept_failed", "connected"} :
         /\ setup_outcome' = outcome
         /\ client_socket' = ClientAfterSetup(outcome)
    /\ procState' = "running"
    /\ UNCHANGED <<run, deployVars, peerVars, frameVars, pcFrame, poseVars, pose_data, fsVars,
                   hstack, expect_rows, pre_files, camera_released, imgVars, sigVars,
                   accepts, sent, sendFailed>>

\* ImageProcessor(headless=True) in HeadlessCamera (headless_cam.py line 16),
\* ImageProcessor(headless=False) in CameraWebStreamer (ssh_cam.py line 23)
headless == ~threaded

\* the thread that processes frames may start a frame: always on the capture
\* thread of CameraWebStreamer, and on the main thread of HeadlessCamera
\* only while no signal handler is running on it
FrameThreadRuns ==
    /\ procState = "running"
    /\ (threaded \/ hstack = <<>>)

\* the thread that processes frames may go on with the frame it has started:
\* the capture thread of CameraWebStreamer is not joined, it goes on while the
\* main thread unwinds and runs stop()
FrameThreadSteps ==
    \/ FrameThreadRuns
    \/ (threaded /\ procState \in {"stopping", "unwinding"})

(***************************************************************************)
(* Frame processing.                                                       *)
(***************************************************************************)
\* update_frame(new_frame), lines 283-291 and 294; new_frame is None or the
\* next frame of the camera
UpdateFrame ==
    /\ FrameThreadRuns
    /\ pcFrame = "idle"
    /\ \E gotFrame \in BOOLEAN :
         IF gotFrame
         THEN /\ frame_count < budget.frames
              /\ frame_count' = frame_count + 1
              /\ frames' = PushHistory(frames, current_frame)
              /\ current_frame' = frame_count + 1
              /\ K' = K + 1
              /\ firstSince' = IF K = 0 THEN frame_count + 1 ELSE firstSince
              /\ est' = NoPose
              /\ expect_rows' = Len(pose_data)
              /\ pcFrame' = "detect"
         ELSE UNCHANGED <<frame_count, frames, current_frame, K, firstSince, est,
                          expect_rows, pcFrame>>
    /\ UNCHANGED <<run, deployVars, peerVars, procState, last_valid_pos, last_valid_angle, pose_updates,
                   last_good, pose_data, fsVars, hstack, pre_files, camera_released, imgVars, sigVars, tcpVars>>

\* aruco_detection, lines 298-301: no current frame or no detector, nothing
\* is estimated
DetectUnavailable ==
    /\ FrameThreadSteps
    /\ pcFrame = "detect"
    /\ DetectionSkipped(current_frame, aruco_available)
    /\ annotated_frame' = IF headless THEN annotated_frame ELSE current_frame
    /\ pcFrame' = "idle"
    /\ UNCHANGED <<run, deployVars, peerVars, procState, frameVars, poseVars, pose_data, fsVars,
                   hstack, expect_rows, pre_files, camera_released, pnp, sigVars, tcpVars>>

\* aruco_detection, lines 303-341 and 370-373: the annotated frame, the
\* detection and the pose estimate, or an exception raised by one of them
Detect ==
    /\ FrameThreadSteps
    /\ pcFrame = "detect"
    /\ ~DetectionSkipped(current_frame, aruco_available)
    /\ annotated_frame' = IF headless THEN annotated_frame ELSE current_frame
    /\ \E raised \in BOOLEAN :
         IF raised
         THEN /\ pcFrame' = "except"
              /\ UNCHANGED <<est, last_good, expect_rows, pnp>>
         ELSE \E detected \in Detections, r \in PnPResults,
                 solved \in (IF Len(pose_data) < MaxSamples THEN BOOLEAN ELSE {FALSE}) :
                LET good == Recognized(detected) # {} /\ solved
                IN  /\ est' = EstimatePose(detected, solved, r.pos, r.atan)
                    /\ pnp' = PnPInput(detected, marker_world_positions)
                    /\ last_good' =
                         IF good
                         THEN [pos |-> r.pos, yaw |-> get_camera_angle_from_rtvec(r.atan)]
                         ELSE last_good
                    /\ expect_rows' = Len(pose_data) + (IF good THEN 1 ELSE 0)
                    /\ pcFrame' = IF est'.ok THEN "store"
                                  ELSE FrameStep("nopose", ShouldSend(tcp, client_socket))
    /\ UNCHANGED <<run, deployVars, peerVars, procState, frameVars, last_valid_pos,
                   last_valid_angle, pose_updates, pose_data, fsVars, hstack, pre_files, camera_released, sigVars,
                   tcpVars>>

\* poseEstimation, called at line 378 (lines 385-411): one pose per detected
\* marker, drawn unless headless, or an exception raised by one of them
PoseEstimation ==
    /\ FrameThreadSteps
    /\ pcFrame = "axes"
    /\ \E raised \in BOOLEAN :
         IF raised
         THEN pcFrame' = "axes_except" /\ pnp' = pnp
         ELSE /\ pcFrame' = FrameStep("axes", ShouldSend(tcp, client_socket))
              /\ pnp' = NoDetection
    /\ UNCHANGED <<run, deployVars, peerVars, procState, frameVars, poseVars, pose_data, fsVars,
                   hstack, expect_rows, pre_files, camera_released, annotated_frame, sigVars, tcpVars>>

\* the except clauses of aruco_detection (lines 380-383) and of
\* poseEstimation (lines 413-414): the exception is printed, the annotated
\* frame reset by the former, and the frame is over
CatchFrameException ==
    /\ FrameThreadSteps
    /\ pcFrame \in {"except", "axes_except"}
    /\ procState' = AfterCatch(procState)
    /\ annotated_frame' = IF pcFrame = "except" /\ ~headless
                          THEN current_frame ELSE annotated_frame
    /\ pnp' = NoDetection
    /\ pcFrame' = "idle"
    /\ UNCHANGED <<run, deployVars, peerVars, frameVars, poseVars, pose_data, fsVars, hstack,
                   expect_rows, pre_files, camera_released, sigVars, tcpVars>>

\* aruco_detection, lines 344-345
StorePose ==
    /\ FrameThreadSteps
    /\ pcFrame = "store"
    /\ last_valid_pos' = est.pos
    /\ last_valid_angle' = est.yaw
    /\ pose_updates' = pose_updates + 1
    /\ pcFrame' = FrameStep("store", ShouldSend(tcp, client_socket))
    /\ pnp' = NoDetection
    /\ UNCHANGED <<run, deployVars, peerVars, procState, frameVars, est, last_good, pose_data,
                   fsVars, hstack, expect_rows, pre_files, camera_released, annotated_frame, sigVars,
                   tcpVars>>

\* aruco_detection, lines 347-354
Record ==
    /\ FrameThreadSteps
    /\ pcFrame = "record"
    /\ pose_data' = RecordSample(pose_data, PoseRow(est.pos, est.yaw, last_valid_angle))
    /\ pcFrame' = FrameStep("record", ShouldSend(tcp, client_socket))
    /\ UNCHANGED <<run, deployVars, peerVars, procState, frameVars, poseVars, fsVars, hstack,
                   expect_rows, pre_files, camera_released, imgVars, sigVars, tcpVars>>

\* aruco_detection lines 361-368 with convert_and_send lines 218-236: the
\* message is built from the stored pose and sent; a send that raises is
\* caught and the client socket is discarded
Send ==
    /\ FrameThreadSteps
    /\ pcFrame = "send"
    /\ sent' = Append(sent, [msg |-> Message(last_valid_pos, last_valid_angle),
                             rows |-> Len(pose_data)])
    /\ \E delivered \in BOOLEAN :
         /\ client_socket' = IF delivered THEN client_socket
                             ELSE AfterSendFailure(client_socket)
         /\ sendFailed' = (sendFailed \/ ~delivered)
    /\ pcFrame' = FrameStep("send", ShouldSend(tcp, client_socket))
    /\ UNCHANGED <<run, deployVars, peerVars, procState, frameVars, poseVars, pose_data, fsVars,
                   hstack, expect_rows, pre_files, camera_released, imgVars, sigVars, setup_outcome, accepts>>

\* clear_frames, lines 464-465, called between two update_frame calls by the
\* owner of the ImageProcessor (never from inside the signal handler)
ClearFrames ==
    /\ procState = "running"
    /\ hstack = <<>>
    /\ pcFrame = "idle"
    /\ current_frame' = None
    /\ frames' = <<>>
    /\ K' = 0
    /\ firstSince' = None
    /\ UNCHANGED <<run, deployVars, peerVars, procState, frame_count, pcFrame, poseVars, pose_data,
                   fsVars, hstack, expect_rows, pre_files, camera_released, imgVars, sigVars, tcpVars>>

\* HeadlessCamera.run_detection, lines 80-82 and 92-100: after a frame the
\* duration limit is found to be exceeded, the loop is left with break,
\* stop() releases the camera and the process ends
DurationLimit ==
    /\ ~threaded
    /\ procState = "running"
    /\ hstack = <<>>
    /\ pcFrame = "idle"
    /\ frame_count > 0
    /\ procState' = "timed_out"
    /\ camera_released' = TRUE
    /\ UNCHANGED <<run, deployVars, peerVars, frameVars, pcFrame, poseVars, pose_data, fsVars,
                   hstack, expect_rows, pre_files, imgVars, sigVars, tcpVars>>

(***************************************************************************)
(* The SIGINT handler and the flush.  Python runs the handler on the main  *)
(* thread between two bytecodes, also between two bytecodes of a handler   *)
(* that is already running; an activation ends in sys.exit, or in the      *)
(* exception that get_next_output_filename lets through.                   *)
(***************************************************************************)
Top == hstack[Len(hstack)]

SetTop(h) == [hstack EXCEPT ![Len(hstack)] = h]

HandlerAt(pcs) ==
    /\ procState \in {"running", "accepting"}
    /\ hstack # <<>>
    /\ Top.pc \in pcs

\* signal_handler line 148 and save_pose_data_to_csv lines 169-171: where the
\* activation goes after the two emptiness tests
HandlerEntry(pd) ==
    IF collect_data /\ HasPoseData(pd)
    THEN (IF ~HasPoseData(pd) THEN "exit" ELSE "mkdir")
    ELSE "exit"

\* SIGINT is delivered while frames are processed or while setup_tcp blocks
\* in accept (the handler is installed at line 114, setup_tcp called at 117):
\* signal_handler starts (not inside the C call writer.writerows, which runs
\* no bytecode of the main thread)
SigInt ==
    /\ procState \in {"running", "accepting"}
    /\ sigCount < budget.signals
    /\ (hstack # <<>> => Top.pc # "rowsin")
    /\ hstack' = Append(hstack, [pc |-> HandlerEntry(pose_data), counter |-> FirstCounter,
                                  idx |-> 0, n0 |-> Len(pose_data)])
    /\ saveCalls' = saveCalls + (IF collect_data /\ HasPoseData(pose_data) THEN 1 ELSE 0)
    /\ sigCount' = sigCount + 1
    /\ UNCHANGED <<run, deployVars, peerVars, procState, frameVars, pcFrame, poseVars, pose_data,
                   fsVars, expect_rows, pre_files, camera_released, imgVars, flushFailed, tcpVars>>

\* the positions of an activation inside the try of save_pose_data_to_csv
\* (lines 174-181), whose except Exception (lines 182-183) catches and
\* reports
InSaveTry == {"open", "header", "rows", "saved"}

\* whether the frame in progress stands inside the try of aruco_detection
\* (lines 303-379), whose except Exception (lines 380-383) catches and logs
InDetectionTry(stage, cur, available) ==
    \/ stage \in {"store", "record", "send", "axes"}
    \/ (stage = "detect" /\ ~DetectionSkipped(cur, available))

\* the interrupted activations that would catch an exception of the innermost
Catchers == {i \in 1 .. (Len(hstack) - 1) : hstack[i].pc \in InSaveTry}

\* An exception leaves the innermost activation (signal_handler and
\* get_next_output_filename have no try) and is raised where that activation
\* interrupted the main thread: in an outer activation, which catches it
\* inside its try and goes on to sys.exit; else in serve_forever of
\* CameraWebStreamer (ssh_cam.py lines 222-230 and 394-406), which unwinds
\* through stop(); else in the frame loop of HeadlessCamera, where the except
\* Exception of aruco_detection swallows it, the rest of the frame is skipped
\* and the loop goes on; else nobody catches it and the finally of
\* run_detection calls stop() on the way out.
HandlerRaises ==
    IF Catchers # {}
    THEN LET k == CHOOSE i \in Catchers : \A j \in Catchers : j <= i
         IN  /\ hstack' = [SubSeq(hstack, 1, k) EXCEPT ![k].pc = "exit"]
             /\ UNCHANGED <<procState, pcFrame, last_good, expect_rows, camera_released>>
    ELSE /\ hstack' = <<>>
         /\ IF threaded
            THEN /\ procState' = "unwinding"
                 /\ UNCHANGED <<pcFrame, last_good, expect_rows, camera_released>>
            ELSE IF InDetectionTry(pcFrame, current_frame, aruco_available)
                    /\ DetectionCatches("Exception")
                 THEN /\ pcFrame' = "idle"
                      /\ expect_rows' = Len(pose_data)
                      /\ last_good' = [pos |-> last_valid_pos, yaw |-> last_valid_angle]
                      /\ UNCHANGED <<procState, camera_released>>
                 ELSE /\ procState' = "crashed"
                      /\ camera_released' = TRUE
                      /\ UNCHANGED <<pcFrame, last_good, expect_rows>>

\* get_next_output_filename, lines 156-158, called at line 173 outside the
\* try: os.makedirs creates output/ or raises
MakeDir ==
    /\ HandlerAt({"mkdir"})
    /\ \E made \in (IF dirExists THEN {TRUE} ELSE BOOLEAN) :
         IF made
         THEN /\ dirExists' = TRUE
              /\ hstack' = SetTop([Top EXCEPT !.pc = "probe"])
              /\ UNCHANGED <<procState, pcFrame, last_good, expect_rows, flushFailed,
                             camera_released>>
         ELSE /\ dirExists' = dirExists
              /\ flushFailed' = TRUE
              /\ HandlerRaises
    /\ UNCHANGED <<run, deployVars, peerVars, frameVars, est, last_valid_pos, last_valid_angle, pose_updates,
                   pose_data, output_files, file_lines, created, pre_files, imgVars,
                   saveCalls, sigCount, tcpVars>>

\* get_next_output_filename, lines 161-165: one turn of the loop
Probe ==
    /\ HandlerAt({"probe"})
    /\ hstack' = IF ~FileExists(output_files, Top.counter)
                 THEN SetTop([Top EXCEPT !.pc = "open"])
                 ELSE SetTop([Top EXCEPT !.counter = @ + 1])
    /\ UNCHANGED <<run, deployVars, peerVars, procState, frameVars, pcFrame, poseVars, pose_data,
                   fsVars, expect_rows, pre_files, camera_released, imgVars, sigVars, tcpVars>>

\* save_pose_data_to_csv, line 175: open(filename, 'w') creates or truncates
\* the file, or raises; lines 182-183 catch and report the error
OpenFile ==
    /\ HandlerAt({"open"})
    /\ \E opened \in BOOLEAN :
         IF opened
         THEN /\ output_files' = output_files \cup {Top.counter}
              /\ file_lines' = [file_lines EXCEPT ![Top.counter] = <<>>]
              /\ created' = created \cup {Top.counter}
              /\ hstack' = SetTop([Top EXCEPT !.pc = "header"])
              /\ UNCHANGED flushFailed
         ELSE /\ hstack' = SetTop([Top EXCEPT !.pc = "exit"])
              /\ flushFailed' = TRUE
              /\ UNCHANGED <<output_files, file_lines, created>>
    /\ UNCHANGED <<run, deployVars, peerVars, procState, frameVars, pcFrame, poseVars, pose_data,
                   dirExists, expect_rows, pre_files, camera_released, imgVars, saveCalls, sigCount, tcpVars>>

\* save_pose_data_to_csv, line 178; a write that raises is caught and
\* reported by lines 182-183
WriteHeader ==
    /\ HandlerAt({"header"})
    /\ \E written \in BOOLEAN :
         IF written
         THEN /\ file_lines' = [file_lines EXCEPT ![Top.counter] = Append(@, Header)]
              /\ hstack' = SetTop([Top EXCEPT !.pc = "rows"])
              /\ UNCHANGED flushFailed
         ELSE /\ hstack' = SetTop([Top EXCEPT !.pc = "exit"])
              /\ flushFailed' = TRUE
              /\ UNCHANGED file_lines
    /\ UNCHANGED <<run, deployVars, peerVars, procState, frameVars, pcFrame, poseVars, pose_data,
                   dirExists, output_files, created, expect_rows, pre_files, camera_released, imgVars, saveCalls,
                   sigCount, tcpVars>>

\* save_pose_data_to_csv, line 180: writerows walks the live list by index,
\* one row a step, until the index reaches the list's length at that moment;
\* a write that raises is caught and reported by lines 182-183
WriteRow ==
    /\ HandlerAt({"rows", "rowsin"})
    /\ IF Top.idx < Len(pose_data)
       THEN \E written \in BOOLEAN :
              IF written
              THEN /\ file_lines' = [file_lines EXCEPT
                                       ![Top.counter] =
                                           Append(@, FormatRow(pose_data[Top.idx + 1]))]
                   /\ hstack' = SetTop([Top EXCEPT !.pc = "rowsin", !.idx = @ + 1])
                   /\ UNCHANGED flushFailed
              ELSE /\ hstack' = SetTop([Top EXCEPT !.pc = "exit"])
                   /\ flushFailed' = TRUE
                   /\ UNCHANGED file_lines
       ELSE /\ file_lines' = file_lines
            /\ hstack' = SetTop([Top EXCEPT !.pc = "saved"])
            /\ UNCHANGED flushFailed
    /\ UNCHANGED <<run, deployVars, peerVars, procState, frameVars, pcFrame, poseVars, pose_data,
                   dirExists, output_files, created, expect_rows, pre_files, camera_released, imgVars, saveCalls,
                   sigCount, tcpVars>>

\* save_pose_data_to_csv, line 181, the end of the with block, the return
Saved ==
    /\ HandlerAt({"saved"})
    /\ hstack' = SetTop([Top EXCEPT !.pc = "exit"])
    /\ UNCHANGED <<run, deployVars, peerVars, procState, frameVars, pcFrame, poseVars, pose_data,
                   fsVars, expect_rows, pre_files, camera_released, imgVars, sigVars, tcpVars>>

\* signal_handler, lines 150-151: SystemExit unwinds every activation and
\* surfaces where the main thread was interrupted.  In accept it passes the
\* except clauses of setup_tcp and leaves __init__: the process ends before
\* any camera exists.  In the frame loop of HeadlessCamera it passes the
\* except clauses of the frame, and the finally of run_detection
\* (headless_cam.py lines 89-93) calls stop(), which releases the camera,
\* before the process ends.  In serve_forever of CameraWebStreamer it goes
\* through the finally of start_streaming (ssh_cam.py lines 225-230) into
\* stop().
SysExit ==
    /\ HandlerAt({"exit"})
    /\ hstack' = <<>>
    /\ IF procState = "accepting"
       THEN /\ procState' = IF SetupCatches("SystemExit") THEN "running" ELSE "exited"
            /\ UNCHANGED <<pcFrame, camera_released>>
       ELSE IF threaded
       THEN /\ procState' = "stopping"
            /\ UNCHANGED <<pcFrame, camera_released>>
       ELSE IF InDetectionTry(pcFrame, current_frame, aruco_available)
               /\ DetectionCatches("SystemExit")
       THEN /\ pcFrame' = "idle"
            /\ UNCHANGED <<procState, camera_released>>
       ELSE /\ procState' = "exited"
            /\ camera_released' = TRUE
            /\ UNCHANGED pcFrame
    /\ UNCHANGED <<run, deployVars, peerVars, frameVars, poseVars, pose_data, fsVars,
                   expect_rows, pre_files, imgVars, sigVars, tcpVars>>

\* CameraWebStreamer.stop(), ssh_cam.py lines 236-243, on the main thread:
\* running is cleared, the camera released and clear_frames() called while
\* the capture thread is not joined; then the process ends
StopClear ==
    /\ procState \in {"stopping", "unwinding"}
    /\ current_frame' = None
    /\ frames' = <<>>
    /\ K' = 0
    /\ firstSince' = None
    /\ procState' = IF procState = "stopping" THEN "exited" ELSE "crashed"
    /\ camera_released' = TRUE
    /\ UNCHANGED <<run, deployVars, peerVars, frame_count, pcFrame, poseVars, pose_data, fsVars,
                   hstack, expect_rows, pre_files, imgVars, sigVars, tcpVars>>

\* the program is started again over the same output/ directory
NewRun ==
    /\ procState \in Ended
    /\ run < budget.runs
    /\ run' = run + 1
    /\ procState' = IF ShouldSetupTcp(tcp) THEN "setup" ELSE "running"
    /\ frame_count' = 0
    /\ current_frame' = None
    /\ frames' = <<>>
    /\ pcFrame' = "idle"
    /\ est' = NoPose
    /\ last_valid_pos' = <<0, 0>>
    /\ last_valid_angle' = 0
    /\ pose_data' = <<>>
    /\ annotated_frame' = None
    /\ pnp' = NoDetection
    /\ client_socket' = FALSE
    /\ hstack' = <<>>
    /\ K' = 0
    /\ firstSince' = None
    /\ last_good' = [pos |-> <<0, 0>>, yaw |-> 0]
    /\ expect_rows' = 0
    /\ pose_updates' = 0
    /\ saveCalls' = 0
    /\ created' = {}
    /\ sigCount' = 0
    /\ flushFailed' = FALSE
    /\ accepts' = 0
    /\ setup_outcome' = "none"
    /\ camera_released' = FALSE
    /\ sent' = <<>>
    /\ sendFailed' = FALSE
    /\ pre_files' = output_files
    /\ UNCHANGED <<deployVars, peerVars, dirExists, output_files, file_lines>>

Next ==
    \/ SetupTcp
    \/ Accept
    \/ UpdateFrame
    \/ DetectUnavailable
    \/ Detect
    \/ StorePose
    \/ Record
    \/ Send
    \/ PoseEstimation
    \/ CatchFrameException
    \/ ClearFrames
    \/ DurationLimit
    \/ SigInt
    \/ MakeDir
    \/ Probe
    \/ OpenFile
    \/ WriteHeader
    \/ WriteRow
    \/ Saved
    \/ SysExit
    \/ StopClear
    \/ NewRun

Spec == Init /\ [][Next]_vars

(***************************************************************************)
(* Two engine processes over one output/ directory: the HeadlessCamera     *)
(* process above and a second process that runs the same flush.  The       *)
(* filesystem is the only state they share; the steps of the two flushes   *)
(* interleave freely.                                                      *)
(***************************************************************************)
InitPeers ==
    /\ budget \in {b \in Budgets : b.pre = MaxPre /\ b.runs = 1}
    /\ peer = PeerAtFlush
    /\ run = 1
    /\ threaded = FALSE
    /\ aruco_available = TRUE
    /\ tcp = budget.tcp
    /\ marker_world_positions = BuiltMarkerMap
    /\ InitMemory
    /\ dirExists = TRUE
    /\ output_files \in SUBSET (1 .. budget.pre)
    /\ file_lines = [n \in 1 .. MaxFile |-> IF n \in output_files THEN OldLines ELSE <<>>]
    /\ pre_files = output_files

\* get_next_output_filename, lines 161-165, in the second process: one turn
\* of the loop
PeerProbe ==
    /\ peer.pc = "probe"
    /\ peer' = IF ~FileExists(output_files, peer.counter)
               THEN [peer EXCEPT !.pc = "open"]
               ELSE [peer EXCEPT !.counter = @ + 1]
    /\ UNCHANGED <<run, deployVars, procState, frameVars, pcFrame, poseVars, pose_data,
                   fsVars, hstack, expect_rows, pre_files, camera_released, imgVars,
                   sigVars, tcpVars>>

\* save_pose_data_to_csv, line 175, in the second process: open(filename,
\* 'w') creates the file or truncates the one that is there
PeerOpen ==
    /\ peer.pc = "open"
    /\ output_files' = output_files \cup {peer.counter}
    /\ file_lines' = [file_lines EXCEPT ![peer.counter] = <<>>]
    /\ peer' = [peer EXCEPT !.pc = "write", !.file = peer.counter]
    /\ UNCHANGED <<run, deployVars, procState, frameVars, pcFrame, poseVars, pose_data,
                   dirExists, created, hstack, expect_rows, pre_files, camera_released,
                   imgVars, sigVars, tcpVars>>

\* save_pose_data_to_csv, lines 176-181, in the second process: its lines
\* are written from the start of the file
PeerWrite ==
    /\ peer.pc = "write"
    /\ file_lines' = [file_lines EXCEPT ![peer.file] = PeerLines]
    /\ peer' = [peer EXCEPT !.pc = "done"]
    /\ UNCHANGED <<run, deployVars, procState, frameVars, pcFrame, poseVars, pose_data,
                   dirExists, output_files, created, hstack, expect_rows, pre_files,
                   camera_released, imgVars, sigVars, tcpVars>>

NextPeers ==
    \/ UpdateFrame
    \/ Detect
    \/ StorePose
    \/ Record
    \/ PoseEstimation
    \/ CatchFrameException
    \/ SigInt
    \/ MakeDir
    \/ Probe
    \/ OpenFile
    \/ WriteHeader
    \/ WriteRow
    \/ Saved
    \/ SysExit
    \/ PeerProbe
    \/ PeerOpen
    \/ PeerWrite

SpecPeers == InitPeers /\ [][NextPeers]_vars

(***************************************************************************)
(* Properties.                                                             *)
(***************************************************************************)

\* the frames demoted into the history since construction or the last
\* clear_frames, in arrival order: every frame but the current one
Demoted == [i \in 1 .. (IF K > 0 THEN K - 1 ELSE 0) |-> firstSince + i - 1]

\* the frames the ImageProcessor holds
Held == Range(frames) \cup (IF current_frame # None THEN {current_frame} ELSE {})

\* C1: after any sequence of update_frame and clear_frames calls the history
\* holds at most num_frames entries (history + current at most num_frames + 1)
\* and equals the up-to-num_frames most recently demoted frames in arrival
\* order, so what update_frame removes is always the earliest entry.
C1_HistoryBoundedFifo ==
    /\ Len(frames) <= num_frames
    /\ TotalFrames(frames, current_frame) <= num_frames + 1
    /\ frames = LastN(Demoted, num_frames)

\* C1 witness: the history is full and its earliest entry has been evicted
C1_Witness ==
    /\ K = num_frames + 2
    /\ Len(frames) = num_frames
    /\ frames[1] = firstSince + 1
    /\ current_frame = firstSince + 3

\* C2 as stated: after exactly num_frames + 1 update_frame calls from an
\* empty history the first-pushed frame is no longer held.
C2_EvictedAfterThree == K = num_frames + 1 => firstSince \notin Held

\* C2 amended: after exactly num_frames + 2 (= 4) update_frame calls from an
\* empty history the first-pushed frame has been evicted; after num_frames + 1
\* (= 3) calls it is still held, as the oldest history entry.
C2_EvictedAfterFour ==
    /\ K = num_frames + 2 => firstSince \notin Held
    /\ K = num_frames + 1 => (frames # <<>> /\ frames[1] = firstSince)

\* C2 witness: four frames since the history was empty
C2_Witness == K = num_frames + 2 /\ firstSince \notin Held /\ Cardinality(Held) = num_frames + 1

\* C3 as stated: has_sufficient_frames(r) is true iff at least r frames were
\* passed to update_frame since construction or the last clear_frames.
C3_SufficientIffObserved ==
    \A r \in 0 .. MaxRequired :
        HasSufficient(frames, current_frame, r) <=> (K >= r)

\* C3 amended: has_sufficient_frames(r) is true iff at least r frames are
\* held, that is iff min(K, num_frames + 1) >= r: for r <= num_frames + 1 iff
\* K >= r, and for r > num_frames + 1 never.
C3_SufficientIffHeld ==
    \A r \in 0 .. MaxRequired :
        HasSufficient(frames, current_frame, r) <=> (Min(K, num_frames + 1) >= r)

\* C3 witness: four frames observed, three are sufficient, four are not
C3_Witness ==
    /\ K = num_frames + 2
    /\ HasSufficient(frames, current_frame, num_frames + 1)
    /\ ~HasSufficient(frames, current_frame, num_frames + 2)

C6_AppendOnly == [][run' = run => IsPrefix(pose_data, pose_data')]_vars

\* C6 witness: rows recorded, frames cleared, the flush done, rows still there
C6_Witness ==
    /\ procState = "exited"
    /\ created # {}
    /\ Len(pose_data) = 2
    /\ current_frame = None
    /\ pose_data[1] # pose_data[2]

\* C7 as stated: however many interrupts arrive and whenever, one run calls
\* save_pose_data_to_csv at most once and creates at most one CSV file.
C7_FlushAtMostOnce == saveCalls <= 1 /\ Cardinality(created) <= 1

\* C8: an activation of the handler that found the buffer empty goes
\* straight to sys.exit, and every step that creates output/ or creates or
\* writes a file is taken by an activation that found the buffer non-empty.
C8_EmptyBufferNoWrite ==
    /\ [](\A i \in 1 .. Len(hstack) : hstack[i].n0 = 0 => hstack[i].pc = "exit")
    /\ [](hstack # <<>> /\ procState = "running" /\ Top.n0 = 0 => ENABLED SysExit)
    /\ [][(dirExists' # dirExists \/ output_files' # output_files \/ file_lines' # file_lines)
            => (hstack # <<>> /\ Top.n0 > 0)]_vars

\* C8 witness: frames were processed, no sample recorded, the process exited
\* on an interrupt, and output/ still does not exist
C8_Witness ==
    /\ procState = "exited"
    /\ frame_count > 0
    /\ pose_data = <<>>
    /\ ~dirExists
    /\ created = {}

\* the lines of a file holding the header and the first n rows of the buffer
Snapshot(n) == <<Header>> \o [j \in 1 .. n |-> FormatRow(pose_data[j])]

\* C9 as stated: once writerows has returned, the file holds the header and
\* exactly the rows that were in the buffer when the flush began.
C9_FileHoldsSnapshot ==
    \A i \in 1 .. Len(hstack) :
        hstack[i].pc = "saved" => file_lines[hstack[i].counter] = Snapshot(hstack[i].n0)

\* C10: the flush opens output<N>.csv only if that file does not exist and
\* every output<M>.csv with M < N does, and no step changes or removes a file
\* that existed when the run began.
C10_SmallestUnusedName ==
    [][/\ (hstack # <<>> /\ Top.pc = "open"
            /\ (output_files' # output_files \/ file_lines' # file_lines))
          => /\ Top.counter \notin output_files
             /\ \A m \in 1 .. (Top.counter - 1) : m \in output_files
             /\ output_files' = output_files \cup {Top.counter}
       /\ \A n \in pre_files : n \in output_files' /\ file_lines'[n] = file_lines[n]]_vars

\* C10 witness: the first run wrote output1.csv, the second wrote output2.csv
C10_Witness ==
    /\ run = 2
    /\ procState = "exited"
    /\ pre_files = {1}
    /\ created = {2}
    /\ file_lines[1] # OldLines
    /\ Len(file_lines[1]) = 2
    /\ Len(file_lines[2]) = 2

\* C11 as stated: once a filesystem call of the flush has raised (creating
\* output/, opening the file or writing it), the run loop does not resume:
\* the handler is still on its way to the exit or the process has ended.
C11_FlushErrorStillExits ==
    flushFailed => ~(procState = "running" /\ hstack = <<>>)

\* C12 as stated: a process that ended gracefully (sys.exit of the handler or
\* the duration limit of run_detection) with at least one recorded sample and
\* no filesystem error has written a CSV file with the header and a row.
C12_GracefulExitFlushed ==
    (procState \in {"exited", "timed_out"} /\ Len(pose_data) >= 1 /\ ~flushFailed)
        => \E n \in created : Len(file_lines[n]) >= 2 /\ file_lines[n][1] = Header

\* C13: once a send has failed the client socket is gone and stays gone, no
\* further send is attempted and no connection is accepted for the rest of
\* the run, while frames are still taken and processed as before.
C13_NoSendAfterFailure ==
    /\ [](sendFailed => ~client_socket /\ pcFrame # "send")
    /\ [][sendFailed /\ run' = run
            => sent' = sent /\ accepts' = accepts /\ ~client_socket']_vars
    /\ [](sendFailed /\ FrameThreadRuns /\ pcFrame = "idle" /\ frame_count < budget.frames
            => ENABLED UpdateFrame)
    /\ [](sendFailed /\ pcFrame = "idle"
            => /\ Len(pose_data) = expect_rows
               /\ last_valid_pos = last_good.pos
               /\ last_valid_angle = last_good.yaw)

\* C13 witness: the first send failed, the next frame was estimated, stored
\* and recorded, and nothing more was sent
C13_Witness ==
    /\ sendFailed
    /\ Len(sent) = 1
    /\ Len(pose_data) = 2
    /\ pcFrame = "idle"
    /\ pose_data[2] # pose_data[1]
    /\ last_valid_angle = pose_data[2][3]

\* C14: accept is called at most once in a run, only by the construction of
\* an ImageProcessor with tcp enabled and before any frame is taken; while
\* the construction is in setup_tcp no frame can be processed; with tcp
\* disabled accept is never called.
C14_AcceptOnceInConstruction ==
    /\ [](accepts <= 1 /\ (~tcp => accepts = 0 /\ procState # "setup"))
    /\ [](procState = "setup" => frame_count = 0 /\ K = 0 /\ ~ENABLED UpdateFrame)
    /\ [][accepts' > accepts
            => procState = "setup" /\ frame_count = 0 /\ K = 0 /\ pcFrame = "idle"]_vars

\* C14 witness: the client was accepted during construction, two frames were
\* processed afterwards
C14_Witness ==
    /\ tcp
    /\ accepts = 1
    /\ client_socket
    /\ frame_count = 2
    /\ pcFrame = "idle"

\* C15 as stated: no other thread writes the frame history while an
\* update_frame is in progress, so the frame in progress still has its
\* current frame.
C15_FrameThreadOnlyWriter == pcFrame # "idle" => current_frame # None

\* C16 as stated: the stored yaw and the yaw of every recorded row lie in
\* [0, 360).
C16_YawInZeroTo360 ==
    /\ last_valid_angle \in 0 .. 359
    /\ \A i \in 1 .. Len(pose_data) : pose_data[i][3] \in 0 .. 359

\* C16 amended: the stored yaw and the yaw of every recorded row lie in
\* [-90, 270): 90 minus an atan2 result in (-180, 180], not normalized.
C16_YawInMinus90To270 ==
    /\ last_valid_angle \in -90 .. 269
    /\ \A i \in 1 .. Len(pose_data) : pose_data[i][3] \in -90 .. 269

\* C16 witness: the solver returned atan2 = 180 degrees and the yaw -90 was
\* stored and recorded
C16_Witness ==
    /\ last_valid_angle = -90
    /\ pose_data # <<>>
    /\ pose_data[Len(pose_data)][3] = -90

\* the row the trajectory buffer held last when send number i was attempted
RowAtSend(i) == pose_data[sent[i].rows]

\* C17 as stated: every message sent carries the x, the y and the yaw in
\* degrees of the row recorded for its frame (the third field of a message
\* is in thousandths).
C17_MessageIsLoggedSample ==
    \A i \in 1 .. Len(sent) :
        /\ sent[i].rows >= 1
        /\ sent[i].msg[1] = RowAtSend(i)[1]
        /\ sent[i].msg[2] = RowAtSend(i)[2]
        /\ sent[i].msg[3] = 1000 * RowAtSend(i)[3]

\* C17 amended: every message sent carries the x and the y of the row
\* recorded for its frame, and that row's yaw converted from degrees to
\* radians.
C17_MessageIsLoggedSampleInRadians ==
    \A i \in 1 .. Len(sent) :
        /\ sent[i].rows >= 1
        /\ sent[i].msg[1] = RowAtSend(i)[1]
        /\ sent[i].msg[2] = RowAtSend(i)[2]
        /\ sent[i].msg[3] = MilliRadians(RowAtSend(i)[3])

\* C17 witness: a message was sent for a pose with yaw 90 degrees: 1.571
C17_Witness ==
    /\ Len(sent) >= 1
    /\ RowAtSend(1)[3] = 90
    /\ sent[1].msg = <<500, 500, 1571>>

\* C18: a send is attempted only after the pose of the frame was stored and
\* its row appended: when the frame stands before the append the stored pose
\* is already the frame's, when it stands before the send the row is already
\* the buffer's last, and every send was attempted over a non-empty buffer
\* holding at least as many rows as sends.
C18_StoreThenRecordThenSend ==
    /\ pcFrame = "record" =>
         /\ est.ok
         /\ last_valid_pos = est.pos
         /\ last_valid_angle = est.yaw
         /\ Len(pose_data) = expect_rows - 1
    /\ pcFrame = "send" =>
         /\ est.ok
         /\ last_valid_pos = est.pos
         /\ last_valid_angle = est.yaw
         /\ Len(pose_data) = expect_rows
         /\ pose_data[Len(pose_data)] = PoseRow(est.pos, est.yaw, est.yaw)
    /\ \A i \in 1 .. Len(sent) :
         /\ sent[i].rows >= i
         /\ sent[i].rows <= Len(pose_data)

\* C18 witness: two frames succeeded and a send was attempted for each
C18_Witness ==
    /\ Len(sent) = 2
    /\ Len(pose_data) = 2
    /\ sent[1].rows = 1
    /\ sent[2].rows = 2
    /\ pcFrame = "idle"

\* C19: without a detector the stored pose stays (0,0,0), nothing is
\* recorded, nothing is sent, a frame in progress can always finish, and the
\* frame history is maintained as with a detector.
C19_NoDetectorNoPose ==
    ~aruco_available =>
        /\ last_valid_pos = <<0, 0>>
        /\ last_valid_angle = 0
        /\ pose_data = <<>>
        /\ sent = <<>>
        /\ pcFrame \in {"idle", "detect"}
        /\ (pcFrame = "detect" /\ FrameThreadSteps => ENABLED DetectUnavailable)
        /\ frames = LastN(Demoted, num_frames)
        /\ TotalFrames(frames, current_frame) = Min(K, num_frames + 1)

\* C19 witness: four frames went through an ImageProcessor without detector
C19_Witness ==
    /\ ~aruco_available
    /\ frame_count = 4
    /\ pcFrame = "idle"
    /\ frames = <<2, 3>>
    /\ current_frame = 4

\* the map of C20, entry by entry: marker j of page i under the ID 8*i + j
MarkerMapAsClaimed ==
    [n \in 0 .. 39 |->
        [position |-> marker_pos(n \div 8, n % 8),
         size |-> IF n % 8 \in {0, 1, 6, 7} THEN 760 ELSE 260]]

\* C20: the marker map has exactly 40 entries with the IDs 0..39, marker j of
\* page i has the ID 8*i + j, and marker n has the side 0.076 m if n mod 8 is
\* in {0, 1, 6, 7} and 0.026 m otherwise (sides in tenths of a millimetre).
C20_MarkerMap ==
    /\ DOMAIN marker_world_positions = 0 .. 39
    /\ Cardinality(DOMAIN marker_world_positions) = 40
    /\ marker_world_positions = MarkerMapAsClaimed

\* C20 witness: the ImageProcessor was constructed and estimated a pose from
\* the inner marker 3; marker 14 is the corner marker 6 of page 1
C20_Witness ==
    /\ procState = "running"
    /\ est.ok
    /\ marker_world_positions[3].size = 260
    /\ marker_world_positions[14].size = 760
    /\ marker_world_positions[14].position = <<18000, 14280 - 2520, 2290 - 1840>>

\* C21: for the detections the estimator was given, known and unknown IDs
\* mixed, the object points are exactly the 4 corners of every recognized
\* detection, the image points exactly the 4 image corners of the same
\* detection at the same indexes, in detection order, and nothing comes from
\* an unrecognized detection; the solve is attempted iff some detection is
\* recognized, an estimate is only stored after an attempt, and a frame
\* whose only detection is unknown goes on to the per-marker poses with no
\* solve attempted and no exception.
C21_PointsFromRecognizedOnly ==
    LET ids == pnp.ids
        rec == {i \in 1 .. Len(ids) : ids[i] \in DOMAIN marker_world_positions}
        Rank(i) == Cardinality({j \in rec : j < i})
        op == pnp.points.object_points
        ip == pnp.points.image_points
    IN  /\ Len(op) = 4 * Cardinality(rec)
        /\ Len(ip) = 4 * Cardinality(rec)
        /\ \A i \in rec, c \in 1 .. 4 :
              /\ op[4 * Rank(i) + c] =
                   get_marker_corners_3d(marker_world_positions[ids[i]].position,
                                         marker_world_positions[ids[i]].size)[c]
              /\ ip[4 * Rank(i) + c] = <<i, c>>
        /\ pnp.attempted <=> rec # {}
        /\ pcFrame = "store" => pnp.attempted
        /\ pcFrame = "detect" /\ FrameThreadSteps
               /\ ~DetectionSkipped(current_frame, aruco_available)
             => ENABLED (Detect /\ pnp'.ids = <<UnknownId>> /\ ~pnp'.attempted
                                /\ pcFrame' = "axes")

\* C21 witness: an unknown ID followed by a known one, the solve was attempted
\* and its estimate is about to be stored
C21_Witness ==
    /\ pnp.ids = <<UnknownId, 3>>
    /\ pnp.attempted
    /\ Len(pnp.points.image_points) = 4
    /\ pcFrame = "store"

\* C22: an exception raised by the detection or the estimation, by the
\* per-marker pose or drawing, or by the telemetry send is caught: the step
\* that handles it leaves the run going, the pose and the buffer as they were,
\* and ends the frame (the send failure lets the frame go on to the axes);
\* between frames the next frame can be taken whenever the camera has one.
C22_FrameFailuresIsolated ==
    /\ pcFrame \in {"except", "axes_except"} /\ FrameThreadSteps
         => ENABLED (/\ CatchFrameException
                     /\ procState' = procState
                     /\ pcFrame' = "idle"
                     /\ pose_data' = pose_data
                     /\ last_valid_pos' = last_valid_pos
                     /\ last_valid_angle' = last_valid_angle)
    /\ pcFrame = "send" /\ FrameThreadSteps
         => ENABLED (/\ Send
                     /\ sendFailed'
                     /\ procState' = procState
                     /\ pcFrame' = "axes")
    /\ pcFrame = "idle" /\ FrameThreadRuns /\ frame_count < budget.frames
         => ENABLED (UpdateFrame /\ pcFrame' = "detect")

\* C22 witness: the detection of the second frame raised, the exception is in
\* the except clause, the run goes on and the first frame's sample is kept
C22_Witness ==
    /\ pcFrame = "except"
    /\ frame_count = 2
    /\ procState = "running"
    /\ Len(pose_data) = 1

\* C24: get_frame_count() is the number of frames passed to update_frame since
\* construction or the last clear_frames.
C24_CountIsFramesProcessed ==
    TotalFrames(frames, current_frame) = K

\* C25: once the frames are cleared no frame can be retrieved: no current
\* frame, no history, a count of 0 and no annotated frame.
C25_ClearedNothingRetrievable ==
    current_frame = None /\ frames = <<>>
        => /\ TotalFrames(frames, current_frame) = 0
           /\ get_annotated_frame(headless, annotated_frame, current_frame) = None

C26_PoseAndBufferInStep ==
    pcFrame = "idle"
        => /\ Len(pose_data) = pose_updates
           /\ pose_data # <<>> => pose_data[Len(pose_data)][3] = last_valid_angle

\* C27: when setup_tcp failed with tcp enabled (before accept or in it) the
\* construction is over, there is no client socket, nothing was or will be
\* sent, accept is not called again, and frames are taken, poses stored and
\* rows recorded as without telemetry: a recorded frame goes on to the axes
\* without a send.
C27_SetupFailureRunsWithoutTelemetry ==
    tcp /\ setup_outcome \in {"no_socket", "accept_failed"}
        => /\ procState \notin {"setup", "accepting"}
           /\ ~client_socket
           /\ sent = <<>>
           /\ ~sendFailed
           /\ accepts = (IF setup_outcome = "no_socket" THEN 0 ELSE 1)
           /\ ~ENABLED SetupTcp
           /\ ~ENABLED Accept
           /\ pcFrame # "send"
           /\ pcFrame = "idle" /\ FrameThreadRuns /\ frame_count < budget.frames
                => ENABLED (UpdateFrame /\ pcFrame' = "detect")
           /\ pcFrame = "record" /\ FrameThreadSteps
                => ENABLED (Record /\ pcFrame' = "axes")

\* C27 witness: accept raised, two frames were processed afterwards and
\* their two samples recorded
C27_Witness ==
    /\ tcp
    /\ setup_outcome = "accept_failed"
    /\ frame_count = 2
    /\ Len(pose_data) = 2
    /\ pose_updates = 2
    /\ pcFrame = "idle"

\* C28: while setup_tcp blocks in accept the handler is installed, so an
\* interrupt can be delivered; no frame has been processed, the buffer is
\* empty, so the handler goes straight to sys.exit without a flush, and
\* sys.exit ends the process: no frame is ever processed and no file written.
C28_InterruptDuringAcceptExits ==
    /\ procState = "accepting"
         => /\ frame_count = 0 /\ K = 0 /\ pcFrame = "idle"
            /\ pose_data = <<>>
            /\ created = {} /\ output_files = pre_files
            /\ hstack = <<>> /\ sigCount < budget.signals => ENABLED SigInt
            /\ hstack # <<>>
                 => /\ Top.pc = "exit"
                    /\ ~ENABLED Accept
                    /\ ~ENABLED UpdateFrame
                    /\ ENABLED (SysExit /\ procState' = "exited")
    /\ procState = "exited" /\ tcp /\ setup_outcome = "none"
         => /\ frame_count = 0
            /\ saveCalls = 0
            /\ created = {} /\ output_files = pre_files
            /\ ~camera_released

\* C28 witness: the process ended by an interrupt delivered during accept
C28_Witness ==
    /\ procState = "exited"
    /\ tcp
    /\ accepts = 1
    /\ setup_outcome = "none"
    /\ sigCount = 1
    /\ frame_count = 0

\* C29: in HeadlessCamera, when the handler has reached sys.exit while the
\* main thread is inside the detection, the pose estimation or the send of
\* a frame, the next step ends the process with the camera released; the
\* camera is released only when the run is over, after every activation of
\* the handler has finished, and a process that was interrupted in a frame
\* and exited has made its flush first.
C29_SystemExitNotSwallowed ==
    /\ ~threaded /\ procState = "running" /\ HandlerAt({"exit"})
          /\ InDetectionTry(pcFrame, current_frame, aruco_available)
         => ENABLED (SysExit /\ procState' = "exited" /\ camera_released'
                             /\ pcFrame' = pcFrame)
    /\ ~threaded /\ camera_released => procState \in Ended /\ hstack = <<>>
    /\ ~threaded /\ procState = "exited" /\ (~tcp \/ setup_outcome # "none")
         => camera_released

\* C29 witness: HeadlessCamera was interrupted between the pose store and
\* the row append of its second frame, flushed the first row into a file and
\* exited with the camera released
C29_Witness ==
    /\ ~threaded
    /\ procState = "exited"
    /\ pcFrame = "record"
    /\ frame_count = 2
    /\ created # {}
    /\ camera_released

\* C30: two processes that flush into the same output/ never write the same
\* output<N>.csv: the file the second process opened is none of the files
\* this process created, and once both are done each file holds what its
\* process wrote.
C30_PeersSelectDistinctFiles ==
    /\ peer.file # None => peer.file \notin created
    /\ peer.pc = "done" /\ procState = "exited" /\ ~flushFailed
         => /\ file_lines[peer.file] = PeerLines
            /\ \A n \in created : file_lines[n] # <<>> /\ file_lines[n] # PeerLines

====
